---- MODULE Spec2Model ----
(***************************************************************************)
(* Model of the reduced chi-square evaluator of the astropy-modeling       *)
(* tutorial notebooks (1_models-quick-fit.ipynb and the user-defined-model *)
(* notebook), and of the notebook kernel in which it is called.            *)
(*                                                                         *)
(*   def calc_reduced_chi_square(fit, x, y, yerr, N, n_free):              *)
(*       return 1.0 / (N - n_free) * sum(((fit - y) / yerr) ** 2)          *)
(*                                                                         *)
(* fit, y and yerr are one-dimensional numpy float64 arrays, N and n_free  *)
(* are Python ints (N = 100, len(x1), the literals 3 and 4 in the calls).  *)
(* Floating-point numbers are modelled as binary floating-point numbers    *)
(* with round-to-nearest-even, as IEEE 754 float64, but with a significand *)
(* of Precision bits instead of 53 and an unbounded exponent.              *)
(***************************************************************************)
EXTENDS Integers, Sequences, FiniteSets

VARIABLES
    kernel,   \* the notebook kernel's global names: N and reduced_chi_squared
    calls     \* the calls of calc_reduced_chi_square made so far, oldest first

vars == <<kernel, calls>>

\* ------------------------------------------------------------ bounds ----
\* Bits of the significand of a modelled floating-point number (float64: 53).
Precision == 5
\* Longest data array of a call with well-formed arguments; also the largest
\* N and n_free of a call.
MaxLen == 2
\* Longest data array of a call with arbitrary arguments.
MaxRawLen == 3
\* Longest data array of a call whose arrays are permuted.
MaxPermLen == 3

\* ------------------------------------------------- float64 arithmetic ----
\* A floating-point number: finite m * 2^e (m odd, or m = 0 and e = 0),
\* an infinity (m is its sign) or a NaN.
Fin(m, e) == [k |-> "fin", m |-> m, e |-> e]
Inf(s) == [k |-> "inf", m |-> s, e |-> 0]
NaN == [k |-> "nan", m |-> 0, e |-> 0]

Abs(i) == IF i < 0 THEN -i ELSE i
Sgn(i) == IF i < 0 THEN -1 ELSE IF i = 0 THEN 0 ELSE 1
Min(i, j) == IF i <= j THEN i ELSE j

\* The unique representation of m * 2^e.
RECURSIVE Canon(_, _)
Canon(m, e) ==
    IF m = 0 THEN Fin(0, 0)
    ELSE IF m % 2 = 0 THEN Canon(m \div 2, e + 1)
    ELSE Fin(m, e)

\* (a / d) * 2^e, a > 0 and d > 0, rounded to Precision significant bits,
\* to nearest, ties to even.
RECURSIVE RoundPos(_, _, _)
RoundPos(a, d, e) ==
    IF a < (2 ^ (Precision - 1)) * d THEN RoundPos(2 * a, d, e - 1)
    ELSE IF a >= (2 ^ Precision) * d THEN RoundPos(a, 2 * d, e + 1)
    ELSE LET q == a \div d
             r == a % d
             up == 2 * r > d \/ (2 * r = d /\ q % 2 = 1)
         IN  Canon(IF up THEN q + 1 ELSE q, e)

\* (n / d) * 2^e, d > 0, rounded.
Round(n, d, e) ==
    IF n = 0 THEN Fin(0, 0)
    ELSE LET r == RoundPos(Abs(n), d, e) IN Fin(Sgn(n) * r.m, r.e)

\* float(i) of a Python int.
int_to_float(i) == Round(i, 1, 0)

float_neg(a) == IF a.k = "nan" THEN NaN ELSE [a EXCEPT !.m = -a.m]

float_add(a, b) ==
    IF a.k = "nan" \/ b.k = "nan" THEN NaN
    ELSE IF a.k = "inf" /\ b.k = "inf" THEN (IF a.m = b.m THEN a ELSE NaN)
    ELSE IF a.k = "inf" THEN a
    ELSE IF b.k = "inf" THEN b
    ELSE LET e0 == Min(a.e, b.e)
         IN  Round(a.m * 2 ^ (a.e - e0) + b.m * 2 ^ (b.e - e0), 1, e0)

float_sub(a, b) == float_add(a, float_neg(b))

float_mul(a, b) ==
    IF a.k = "nan" \/ b.k = "nan" THEN NaN
    ELSE IF a.k = "inf" \/ b.k = "inf"
         THEN (IF a.m = 0 \/ b.m = 0 THEN NaN ELSE Inf(Sgn(a.m) * Sgn(b.m)))
    ELSE Round(a.m * b.m, 1, a.e + b.e)

\* numpy's true_divide of float64: a zero divisor gives inf or nan (and a
\* RuntimeWarning), never an exception.
float_div(a, b) ==
    IF a.k = "nan" \/ b.k = "nan" THEN NaN
    ELSE IF a.k = "inf" THEN (IF b.k = "inf" THEN NaN
                              ELSE Inf(a.m * (IF b.m < 0 THEN -1 ELSE 1)))
    ELSE IF b.k = "inf" THEN Fin(0, 0)
    ELSE IF b.m = 0 THEN (IF a.m = 0 THEN NaN ELSE Inf(Sgn(a.m)))
    ELSE Round(a.m * Sgn(b.m), Abs(b.m), a.e - b.e)

\* ------------------------------------------------------ numpy arrays ----
\* Two one-dimensional shapes broadcast when they are equal or one is 1.
broadcastable(a, b) == Len(a) = Len(b) \/ Len(a) = 1 \/ Len(b) = 1

BroadcastLen(a, b) == IF Len(a) = 1 THEN Len(b) ELSE Len(a)

At(a, i) == IF Len(a) = 1 THEN a[1] ELSE a[i]

\* Mutant: fit + y in place of fit - y.
ndarray_add(a, b) == [i \in 1..BroadcastLen(a, b) |-> float_add(At(a, i), At(b, i))]

\* Mutant: the ** 2 left out.
ndarray_unsquared(a) == a

\* a - b, a / b and a ** 2 of float64 arrays (broadcastable(a, b) holds).
ndarray_sub(a, b) == [i \in 1..BroadcastLen(a, b) |-> float_sub(At(a, i), At(b, i))]

ndarray_div(a, b) == [i \in 1..BroadcastLen(a, b) |-> float_div(At(a, i), At(b, i))]

ndarray_square(a) == [i \in 1..Len(a) |-> float_mul(a[i], a[i])]

\* Python's builtin sum: 0 + a[1] + a[2] + ..., left to right.
RECURSIVE sum_from(_, _, _)
sum_from(a, i, acc) ==
    IF i > Len(a) THEN acc ELSE sum_from(a, i + 1, float_add(acc, a[i]))

\* Mutant: the sum of a[1:], the first element skipped.
sum_skipping_first(a) == sum_from(a, 2, int_to_float(0))

builtin_sum(a) == sum_from(a, 1, int_to_float(0))

\* ------------------------------------------- calc_reduced_chi_square ----
\* The outcome of a call: a returned float64, or a raised exception.
Return(v) == [kind |-> "return", exc |-> "none", val |-> v]
NoValue == [k |-> "none", m |-> 0, e |-> 0]
Raise(exc) == [kind |-> "raise", exc |-> exc, val |-> NoValue]

\* Mutant: the sum divided by N, the free parameters forgotten.
calc_divided_by_N(fit, x, y, yerr, N, n_free) ==
    IF N = 0 THEN Raise("ZeroDivisionError")
    ELSE IF ~broadcastable(fit, y) THEN Raise("ValueError")
    ELSE IF ~broadcastable(ndarray_sub(fit, y), yerr) THEN Raise("ValueError")
    ELSE Return(float_mul(float_div(int_to_float(1), int_to_float(N)),
                          builtin_sum(ndarray_square(
                              ndarray_div(ndarray_sub(fit, y), yerr)))))

\* Mutant: sum(((fit - y) / yerr) ** 2) / (N - n_free), the array expression
\* evaluated before the division.
calc_sum_first(fit, x, y, yerr, N, n_free) ==
    IF ~broadcastable(fit, y) THEN Raise("ValueError")
    ELSE IF ~broadcastable(ndarray_sub(fit, y), yerr) THEN Raise("ValueError")
    ELSE IF N - n_free = 0 THEN Raise("ZeroDivisionError")
    ELSE Return(float_div(builtin_sum(ndarray_square(
                              ndarray_div(ndarray_sub(fit, y), yerr))),
                          int_to_float(N - n_free)))

\* Mutant: the body reads the kernel's global N, not its parameter N.
calc_with_global_N(fit, x, y, yerr, N, n_free) ==
    IF kernel.N - n_free = 0 THEN Raise("ZeroDivisionError")
    ELSE IF ~broadcastable(fit, y) THEN Raise("ValueError")
    ELSE IF ~broadcastable(ndarray_sub(fit, y), yerr) THEN Raise("ValueError")
    ELSE Return(float_mul(float_div(int_to_float(1), int_to_float(kernel.N - n_free)),
                          builtin_sum(ndarray_square(
                              ndarray_div(ndarray_sub(fit, y), yerr)))))

\* Mutant: the body subtracts from the model at x, so x must broadcast with y.
calc_reading_x(fit, x, y, yerr, N, n_free) ==
    IF N - n_free = 0 THEN Raise("ZeroDivisionError")
    ELSE IF ~broadcastable(fit, y) \/ ~broadcastable(x, y) THEN Raise("ValueError")
    ELSE IF ~broadcastable(ndarray_sub(fit, y), yerr) THEN Raise("ValueError")
    ELSE Return(float_mul(float_div(int_to_float(1), int_to_float(N - n_free)),
                          builtin_sum(ndarray_square(
                              ndarray_div(ndarray_sub(fit, y), yerr)))))

\* 1.0 / (N - n_free) * sum(((fit - y) / yerr) ** 2): the left operand of *
\* is evaluated first (a Python float division, which raises on a zero
\* divisor), then the array expression (numpy raises ValueError on shapes
\* that do not broadcast).
calc_reduced_chi_square(fit, x, y, yerr, N, n_free) ==
    IF N - n_free = 0 THEN Raise("ZeroDivisionError")
    ELSE IF ~broadcastable(fit, y) THEN Raise("ValueError")
    ELSE IF ~broadcastable(ndarray_sub(fit, y), yerr) THEN Raise("ValueError")
    ELSE Return(float_mul(float_div(int_to_float(1), int_to_float(N - n_free)),
                          builtin_sum(ndarray_square(
                              ndarray_div(ndarray_sub(fit, y), yerr)))))

\* ------------------------------------------------------- input domains ----
F(i) == int_to_float(i)
Half(i) == Round(i, 2, 0)

\* The values the arrays of a call hold: fitted values, observations,
\* uncertainties; for a call with arbitrary arguments the uncertainties
\* include zero and a negative one.
FitValues == {F(1), F(2)}
ObsValues == {F(1), F(2)}
ErrValues == {F(1), F(3)}
UnitObsValues == {F(1)}
RawErrValues == {F(-1), F(0), F(1)}
PermErrValues == {Half(3), F(3)}

\* The sample array x of l points.
Samples(l) == [i \in 1..l |-> F(i)]

Arrays(S, n) == UNION {[1..l -> S] : l \in 1..n}
ArraysOfLen(S, l) == [1..l -> S]

\* ----------------------------------------------------- notebook kernel ----
Args(fit, x, y, yerr, N, n_free) ==
    [fit |-> fit, x |-> x, y |-> y, yerr |-> yerr, N |-> N, n_free |-> n_free]

Apply(a) == calc_reduced_chi_square(a.fit, a.x, a.y, a.yerr, a.N, a.n_free)

\* reduced_chi_squared = calc_reduced_chi_square(...): the name is bound only
\* when the call returns.
Assigned(k, ret) ==
    IF ret.kind = "return" THEN [k EXCEPT !.reduced_chi_squared = ret.val] ELSE k

\* The call is made, logged with its relation to the first call, and its
\* result bound to reduced_chi_squared.
Log(a, rel) ==
    LET ret == Apply(a)
    IN  /\ calls' = Append(calls, [args |-> a, ret |-> ret, rel |-> rel])
        /\ kernel' = Assigned(kernel, ret)

\* A fresh kernel: no name is bound (N = 0 stands for the unbound name).
Init ==
    /\ kernel = [N |-> 0, reduced_chi_squared |-> NoValue]
    /\ calls = <<>>

\* The data cell (N = 100; x1 = np.linspace(0, 4, N); ...) binds the global N.
RunDataCell ==
    /\ \E n \in 1..MaxLen : kernel' = [kernel EXCEPT !.N = n]
    /\ UNCHANGED calls

\* A call with data arrays of a common length and positive uncertainties;
\* x is the sample array the data belongs to.
Call ==
    /\ calls = <<>>
    /\ \E l \in 1..MaxLen :
       \E fit \in ArraysOfLen(FitValues, l), y \in ArraysOfLen(ObsValues, l),
          yerr \in ArraysOfLen(ErrValues, l), N \in 1..MaxLen, n_free \in 0..MaxLen :
          Log(Args(fit, Samples(l), y, yerr, N, n_free), "fresh")

\* The first call again, with every uncertainty doubled (2 * yerr).
CallDoubled ==
    /\ Len(calls) = 1
    /\ LET a == calls[1].args
       IN  Log([a EXCEPT !.yerr = [i \in 1..Len(a.yerr) |-> float_mul(F(2), a.yerr[i])]],
               "doubled")

\* The first call again, with identical arguments, after the call with the
\* doubled uncertainties.
CallAgain ==
    /\ Len(calls) = 2
    /\ Log(calls[1].args, "repeat")

Next == RunDataCell \/ Call \/ CallDoubled \/ CallAgain

Spec == Init /\ [][Next]_vars

\* A call with arrays of any lengths and any uncertainties.
CallRaw ==
    /\ calls = <<>>
    /\ \E fit \in Arrays(FitValues, MaxRawLen), y \in Arrays(UnitObsValues, MaxRawLen),
          yerr \in Arrays(RawErrValues, MaxRawLen),
          N \in 1..MaxLen, n_free \in 0..MaxLen :
          Log(Args(fit, Samples(Len(y)), y, yerr, N, n_free), "fresh")

NextRaw == CallRaw

SpecRaw == Init /\ [][NextRaw]_vars

\* A call with valid arguments (N the common length, n_free < N), and the
\* same call with one permutation applied to fit, y and yerr alike.
IndexPermutations(n) == {p \in [1..n -> 1..n] : \A i, j \in 1..n : p[i] = p[j] => i = j}

Permute(a, p) == [i \in 1..Len(a) |-> a[p[i]]]

CallValid ==
    /\ calls = <<>>
    /\ \E l \in 1..MaxPermLen :
       \E fit \in ArraysOfLen(FitValues, l), y \in ArraysOfLen(UnitObsValues, l),
          yerr \in ArraysOfLen(PermErrValues, l), n_free \in 0..1 :
          /\ n_free < l
          /\ Log(Args(fit, Samples(l), y, yerr, l, n_free), "fresh")

CallPermuted ==
    /\ Len(calls) = 1
    /\ LET a == calls[1].args
       IN  \E p \in IndexPermutations(Len(a.fit)) :
              Log([a EXCEPT !.fit = Permute(a.fit, p), !.y = Permute(a.y, p),
                            !.yerr = Permute(a.yerr, p)], "permuted")

NextPerm == CallValid \/ CallPermuted

SpecPerm == Init /\ [][NextPerm]_vars

\* ------------------------------------------------ numpy's exp, sin, cos ----
\* np.exp, np.sin and np.cos of a float64: the Taylor polynomial of degree
\* TaylorDegree of the exact argument n / D, rounded once; it is within an ulp
\* of the function for the arguments of the modelled calls, |n / D| <= 5/2.
TaylorDegree == 8

RECURSIVE Factorial(_)
Factorial(n) == IF n = 0 THEN 1 ELSE n * Factorial(n - 1)

\* b^k, with 0^0 = 1.
RECURSIVE Power(_, _)
Power(b, k) == IF k = 0 THEN 1 ELSE b * Power(b, k - 1)

\* The finite float a as the fraction Numer(a) / Denom(a).
Numer(a) == IF a.e >= 0 THEN a.m * 2 ^ a.e ELSE a.m
Denom(a) == IF a.e >= 0 THEN 1 ELSE 2 ^ (-a.e)

\* The coefficient of x^k / k! in the series of exp, sin and cos.
SeriesCoef(fn, k) ==
    IF fn = "exp" THEN 1
    ELSE IF fn = "sin" THEN (IF k % 2 = 0 THEN 0 ELSE IF k % 4 = 1 THEN 1 ELSE -1)
    ELSE (IF k % 2 = 1 THEN 0 ELSE IF k % 4 = 0 THEN 1 ELSE -1)

\* (n / D)^k / k! over the common denominator D^TaylorDegree * TaylorDegree!.
TaylorTerm(n, D, k) ==
    Power(n, k) * Power(D, TaylorDegree - k) * (Factorial(TaylorDegree) \div Factorial(k))

RECURSIVE TaylorSum(_, _, _, _)
TaylorSum(fn, n, D, k) ==
    IF k > TaylorDegree THEN 0
    ELSE SeriesCoef(fn, k) * TaylorTerm(n, D, k) + TaylorSum(fn, n, D, k + 1)

Series(fn, a) ==
    Round(TaylorSum(fn, Numer(a), Denom(a), 0),
          Power(Denom(a), TaylorDegree) * Factorial(TaylorDegree), 0)

float_exp(a) ==
    IF a.k = "nan" THEN NaN
    ELSE IF a.k = "inf" THEN (IF a.m > 0 THEN a ELSE Fin(0, 0))
    ELSE Series("exp", a)

float_sin(a) == IF a.k # "fin" THEN NaN ELSE Series("sin", a)

float_cos(a) == IF a.k # "fin" THEN NaN ELSE Series("cos", a)

\* -------------------------------------------------------- custom models ----
\* Mutant: the model evaluated at the first sample only.
SineNew_evaluate_first(x, a, b, c, d) ==
    <<float_add(float_mul(a, float_sin(float_add(float_mul(b, x[1]), c))), d)>>

\* Mutant: the gradients of a and b returned in the wrong order.
SineNew_fit_deriv_swapped(x, a, b, c, d) ==
    LET cosine == [i \in 1..Len(x) |-> float_cos(float_add(float_mul(b, x[i]), c))]
    IN  <<[i \in 1..Len(x) |-> float_mul(float_mul(a, cosine[i]), x[i])],
          [i \in 1..Len(x) |-> float_sin(float_add(float_mul(b, x[i]), c))],
          [i \in 1..Len(x) |-> float_mul(a, cosine[i])],
          [i \in 1..Len(x) |-> int_to_float(1)]>>

\* @custom_model def exponential(x, a=1.0, b=1.0, c=1.0):
\*     return a * np.exp(b * x + c)
\* x is a one-dimensional float64 array, a, b and c are floats.
exponential(x, a, b, c) ==
    [i \in 1..Len(x) |-> float_mul(a, float_exp(float_add(float_mul(b, x[i]), c)))]

\* SineNew.evaluate(x, a, b, c, d): return a * np.sin(b * x + c) + d
SineNew_evaluate(x, a, b, c, d) ==
    [i \in 1..Len(x) |->
        float_add(float_mul(a, float_sin(float_add(float_mul(b, x[i]), c))), d)]

\* SineNew.fit_deriv(x, a, b, c, d): return [d_a, d_b, d_c, d_d] with
\* d_a = np.sin(b * x + c), d_b = a * np.cos(b * x + c) * x,
\* d_c = a * np.cos(b * x + c), d_d = np.ones(x.shape).
SineNew_fit_deriv(x, a, b, c, d) ==
    LET cosine == [i \in 1..Len(x) |-> float_cos(float_add(float_mul(b, x[i]), c))]
    IN  <<[i \in 1..Len(x) |-> float_sin(float_add(float_mul(b, x[i]), c))],
          [i \in 1..Len(x) |-> float_mul(float_mul(a, cosine[i]), x[i])],
          [i \in 1..Len(x) |-> float_mul(a, cosine[i])],
          [i \in 1..Len(x) |-> int_to_float(1)]>>

\* Longest sample array of a call of a custom model.
MaxEvalLen == 2

\* The values of the samples x and of the parameters a, b, c, d of a call.
SampleValues == {F(0), Half(1), F(1)}
AmplitudeValues == {F(1), F(2)}
RateValues == {F(-1), F(1)}
PhaseValues == {F(0), F(1)}
OffsetValues == {F(0), F(1)}

\* A call of a custom model's function, by the notebook (exp_fit(x1),
\* sine_fit(x2)) or by the fitter during a fit, logged with its outcome.
LogEval(fn, args, val) ==
    /\ calls' = Append(calls, [fn |-> fn, args |-> args, ret |-> Return(val)])
    /\ UNCHANGED kernel

EvaluateExponential ==
    /\ calls = <<>>
    /\ \E x \in Arrays(SampleValues, MaxEvalLen), a \in AmplitudeValues,
          b \in RateValues, c \in PhaseValues :
          LogEval("exponential", [x |-> x, a |-> a, b |-> b, c |-> c],
                  exponential(x, a, b, c))

EvaluateSineNew ==
    /\ calls = <<>>
    /\ \E x \in Arrays(SampleValues, MaxEvalLen), a \in AmplitudeValues,
          b \in RateValues, c \in PhaseValues, d \in OffsetValues :
          LogEval("SineNew.evaluate", [x |-> x, a |-> a, b |-> b, c |-> c, d |-> d],
                  SineNew_evaluate(x, a, b, c, d))

FitDerivSineNew ==
    /\ calls = <<>>
    /\ \E x \in Arrays(SampleValues, MaxEvalLen), a \in AmplitudeValues,
          b \in RateValues, c \in PhaseValues, d \in OffsetValues :
          LogEval("SineNew.fit_deriv", [x |-> x, a |-> a, b |-> b, c |-> c, d |-> d],
                  SineNew_fit_deriv(x, a, b, c, d))

NextCustom == EvaluateExponential \/ EvaluateSineNew \/ FitDerivSineNew

SpecCustom == Init /\ [][NextCustom]_vars

\* ------------------------------------------------------- scoring cells ----
\* Number of data points of a scored fit.
ScoreLen == 5

\* The data a fit is scored against: the samples (np.linspace), the
\* observations, and the uncertainties np.ones(N) * sigma.
ScoreSamples(l) == [i \in 1..l |-> Half(i - 1)]
ScoreObserved(l) == [i \in 1..l |-> F(1)]
SigmaValues == {F(1), Half(3)}
ScoreErr(l, sigma) == [i \in 1..l |-> float_mul(F(1), sigma)]
FittedPhaseValues == {F(0)}

\* The parameters of the fitted models, in declared order, and those marked
\* fixed (none of the scored models has a parameter marked fixed).
param_names(model) ==
    CASE model = "Polynomial1D(degree=3)" -> <<"c0", "c1", "c2", "c3">>
      [] model = "Gaussian1D" -> <<"amplitude", "mean", "stddev">>
      [] model = "f" -> <<"a", "b", "c">>
      [] model = "exponential" -> <<"a", "b", "c">>
      [] model = "SineNew" -> <<"a", "b", "c", "d">>

fixed(model) == {}

FreeParameters(model) ==
    {param_names(model)[i] : i \in DOMAIN param_names(model)} \ fixed(model)

\* A scoring cell: the call is made and logged with the cell's fit and model;
\* the first notebook binds the result to reduced_chi_squared, the second
\* only displays it.
LogScore(fit_name, model, a, bound) ==
    LET ret == Apply(a)
    IN  /\ calls' = Append(calls, [fit_name |-> fit_name, model |-> model,
                                   args |-> a, ret |-> ret])
        /\ kernel' = IF bound THEN Assigned(kernel, ret) ELSE kernel

\* The call with the values fit of a fit of a library model to ScoreLen points.
Score(fit_name, model, n_free, bound) ==
    \E fit \in ArraysOfLen(FitValues, ScoreLen), sigma \in SigmaValues :
        LogScore(fit_name, model,
                 Args(fit, ScoreSamples(ScoreLen), ScoreObserved(ScoreLen),
                      ScoreErr(ScoreLen, sigma), ScoreLen, n_free), bound)

\* calc_reduced_chi_square(best_fit_poly(x1), x1, y1, y1_err, N, 4)
ScoreBestFitPoly ==
    /\ calls = <<>>
    /\ Score("best_fit_poly", "Polynomial1D(degree=3)", 4, TRUE)

\* calc_reduced_chi_square(best_fit_poly_2(x1), x1, y1, y1_err, N, 4)
ScoreBestFitPoly2 ==
    /\ calls = <<>>
    /\ Score("best_fit_poly_2", "Polynomial1D(degree=3)", 4, TRUE)

\* calc_reduced_chi_square(best_fit_gauss(x2), x2, y2, y2_err, N2, 3)
ScoreBestFitGauss ==
    /\ calls = <<>>
    /\ Score("best_fit_gauss", "Gaussian1D", 3, TRUE)

\* calc_reduced_chi_square(best_fit_gauss_2, x2, y2, y2_err, N2, 3)
ScoreBestFitGauss2 ==
    /\ calls = <<>>
    /\ Score("best_fit_gauss_2", "f", 3, TRUE)

\* calc_reduced_chi_square(exp_fit(x1), x1, y1, y1_err, len(x1), 3)
ScoreExpFit ==
    /\ calls = <<>>
    /\ \E a \in AmplitudeValues, b \in RateValues, c \in FittedPhaseValues,
          sigma \in SigmaValues :
          LET x1 == ScoreSamples(ScoreLen)
          IN  LogScore("exp_fit", "exponential",
                       Args(exponential(x1, a, b, c), x1, ScoreObserved(ScoreLen),
                            ScoreErr(ScoreLen, sigma), Len(x1), 3), FALSE)

\* calc_reduced_chi_square(sine_fit(x2), x2, y2, y2_err, len(x2), 3)
ScoreSineFit ==
    /\ calls = <<>>
    /\ \E a \in AmplitudeValues, b \in RateValues, c \in FittedPhaseValues,
          d \in OffsetValues, sigma \in SigmaValues :
          LET x2 == ScoreSamples(ScoreLen)
          IN  LogScore("sine_fit", "SineNew",
                       Args(SineNew_evaluate(x2, a, b, c, d), x2, ScoreObserved(ScoreLen),
                            ScoreErr(ScoreLen, sigma), Len(x2), 3), FALSE)

NextScore ==
    \/ ScoreBestFitPoly \/ ScoreBestFitPoly2 \/ ScoreBestFitGauss
    \/ ScoreBestFitGauss2 \/ ScoreExpFit \/ ScoreSineFit

SpecScore == Init /\ [][NextScore]_vars

\* ------------------------------------------------ calls that differ in x ----
\* A call with arrays of any lengths, and the same call with another x.
CallAny ==
    /\ calls = <<>>
    /\ \E fit \in Arrays({F(2)}, MaxRawLen), y \in Arrays(UnitObsValues, MaxRawLen),
          yerr \in Arrays(ErrValues, MaxLen), N \in 1..MaxLen, n_free \in 0..1 :
          Log(Args(fit, Samples(Len(y)), y, yerr, N, n_free), "fresh")

CallOtherX ==
    /\ Len(calls) = 1
    /\ \E x \in Arrays(SampleValues, MaxEvalLen) :
          /\ x # calls[1].args.x
          /\ Log([calls[1].args EXCEPT !.x = x], "other x")

NextX == CallAny \/ CallOtherX

SpecX == Init /\ [][NextX]_vars

\* ------------------------------------------------------ notebook cells ----
\* The number of points of the data sets: N = 100 and N2 = 100 in the first
\* notebook, np.linspace(0, 10, 100) in the second, scaled down alike.
NPoints == 5
N2Points == 5
LinspacePoints == 5

\* A name the kernel has not bound yet.
Unbound == <<>>

\* Mutant: np.ones of one element less.
np_ones_short(n) == [i \in 1..(n - 1) |-> F(1)]

\* np.ones(n), array * scalar, 1.0 / array.
np_ones(n) == [i \in 1..n |-> F(1)]
ndarray_scaled(a, v) == [i \in 1..Len(a) |-> float_mul(a[i], v)]
ndarray_reciprocal(a) == [i \in 1..Len(a) |-> float_div(F(1), a[i])]

\* The float literal n / d.
Literal(n, d) == Round(n, d, 0)

\* Arrays of l equal elements: the noisy observations of a data cell, the
\* uncertainties of the catalog, and the values at the samples of a model
\* fitted by the library.
ConstantArrays(S, l) == {[i \in 1..l |-> v] : v \in S}
FittedMeanValues == {F(3)}
FittedWidthValues == {F(1)}

\* def f(x, a, b, c): return a * np.exp(-((x - b) ** 2) / (2.0 * c**2))
curve_fit_f(x, a, b, c) ==
    [i \in 1..Len(x) |->
        float_mul(a, float_exp(float_div(
            float_neg(float_mul(float_sub(x[i], b), float_sub(x[i], b))),
            float_mul(F(2), float_mul(c, c)))))]

\* The names of a notebook's kernel, none bound.
FreshKernel ==
    [N |-> 0, reduced_chi_squared |-> NoValue, N2 |-> 0, k_mag_err |-> Unbound,
     x1 |-> Unbound, y1 |-> Unbound, y1_err |-> Unbound,
     x2 |-> Unbound, y2 |-> Unbound, y2_err |-> Unbound,
     best_fit_poly |-> Unbound, best_fit_poly_2 |-> Unbound,
     best_fit_gauss |-> Unbound, best_fit_gauss_2 |-> Unbound,
     exp_fit |-> Unbound, sine_fit |-> Unbound]

\* The cell run last.
After(cell) == calls # <<>> /\ calls[Len(calls)].cell = cell

DataRun(cell) == [cell |-> cell, kind |-> "data"]

\* A fit of the data set data, with the uncertainty array passed to it (by
\* the name err_name) and the weights made from it (Unbound if none).
FitRun(cell, data, err_name, err, weights) ==
    [cell |-> cell, kind |-> "fit", data |-> data, err_name |-> err_name,
     err |-> err, weights |-> weights]

\* A chi-square call on the data set data.
ScoreRun(cell, data, err_name, a) ==
    [cell |-> cell, kind |-> "score", data |-> data, err_name |-> err_name,
     err |-> a.yerr, args |-> a, ret |-> Apply(a)]

\* --- first notebook
\* best_fit = fitter(model, log_period, k_mag, weights=1.0 / k_mag_err)
Nb1FitCatalog ==
    /\ calls = <<>>
    /\ \E k_mag_err \in ConstantArrays(SigmaValues, MaxLen) :
          /\ kernel' = [FreshKernel EXCEPT !.k_mag_err = k_mag_err]
          /\ calls' = Append(calls, FitRun("best_fit", "log_period, k_mag", "k_mag_err",
                                           k_mag_err, ndarray_reciprocal(k_mag_err)))

\* N = 100; x1 = np.linspace(0, 4, N); y1 = ... + noise; sigma = 1.5;
\* y1_err = np.ones(N) * sigma
Nb1DataCell ==
    /\ After("best_fit")
    /\ \E y1 \in ConstantArrays(ObsValues, NPoints) :
          kernel' = [kernel EXCEPT !.N = NPoints, !.x1 = Samples(NPoints), !.y1 = y1,
                                   !.y1_err = ndarray_scaled(np_ones(NPoints), Literal(3, 2))]
    /\ calls' = Append(calls, DataRun("N"))

\* best_fit_poly = fitter_poly(model_poly, x1, y1, weights=1.0 / y1_err)
Nb1FitPoly ==
    /\ After("N")
    /\ \E v \in ConstantArrays(FitValues, Len(kernel.x1)) :
          kernel' = [kernel EXCEPT !.best_fit_poly = v]
    /\ calls' = Append(calls, FitRun("best_fit_poly", "x1, y1", "y1_err", kernel.y1_err,
                                     ndarray_reciprocal(kernel.y1_err)))

\* best_fit_poly_2 = fitter_poly_2(model_poly, x1, y1, weights=1.0 / y1_err)
Nb1FitPoly2 ==
    /\ After("best_fit_poly")
    /\ \E v \in ConstantArrays(FitValues, Len(kernel.x1)) :
          kernel' = [kernel EXCEPT !.best_fit_poly_2 = v]
    /\ calls' = Append(calls, FitRun("best_fit_poly_2", "x1, y1", "y1_err", kernel.y1_err,
                                     ndarray_reciprocal(kernel.y1_err)))

\* reduced_chi_squared = calc_reduced_chi_square(best_fit_poly(x1), x1, y1, y1_err, N, 4)
Nb1ScorePoly ==
    /\ After("best_fit_poly_2")
    /\ LET run == ScoreRun("score best_fit_poly", "x1, y1", "y1_err",
                           Args(kernel.best_fit_poly, kernel.x1, kernel.y1,
                                kernel.y1_err, kernel.N, 4))
       IN  /\ calls' = Append(calls, run)
           /\ kernel' = Assigned(kernel, run.ret)

\* reduced_chi_squared = calc_reduced_chi_square(best_fit_poly_2(x1), x1, y1, y1_err, N, 4)
Nb1ScorePoly2 ==
    /\ After("score best_fit_poly")
    /\ LET run == ScoreRun("score best_fit_poly_2", "x1, y1", "y1_err",
                           Args(kernel.best_fit_poly_2, kernel.x1, kernel.y1,
                                kernel.y1_err, kernel.N, 4))
       IN  /\ calls' = Append(calls, run)
           /\ kernel' = Assigned(kernel, run.ret)

\* N2 = 100; x2 = np.linspace(-30, 30, N); y2 = ... + noise; sigma = 1;
\* y2_err = np.ones(N) * sigma
Nb1DataCell2 ==
    /\ After("score best_fit_poly_2")
    /\ \E y2 \in ConstantArrays(ObsValues, kernel.N) :
          kernel' = [kernel EXCEPT !.N2 = N2Points, !.x2 = Samples(kernel.N), !.y2 = y2,
                                   !.y2_err = ndarray_scaled(np_ones(kernel.N), F(1))]
    /\ calls' = Append(calls, DataRun("N2"))

\* best_fit_gauss = fitter_gauss(model_gauss, x2, y2, weights=1 / y2_err)
Nb1FitGauss ==
    /\ After("N2")
    /\ \E v \in ConstantArrays(FitValues, Len(kernel.x2)) :
          kernel' = [kernel EXCEPT !.best_fit_gauss = v]
    /\ calls' = Append(calls, FitRun("best_fit_gauss", "x2, y2", "y2_err", kernel.y2_err,
                                     ndarray_reciprocal(kernel.y2_err)))

\* p_opt, p_cov = scipy.optimize.curve_fit(f, x2, y2, sigma=y1_err)
\* a, b, c = p_opt; best_fit_gauss_2 = f(x2, a, b, c)
Nb1CurveFit ==
    /\ After("best_fit_gauss")
    /\ \E a \in AmplitudeValues, b \in FittedMeanValues, c \in FittedWidthValues :
          kernel' = [kernel EXCEPT !.best_fit_gauss_2 = curve_fit_f(kernel.x2, a, b, c)]
    /\ calls' = Append(calls, FitRun("best_fit_gauss_2", "x2, y2", "y1_err", kernel.y1_err,
                                     Unbound))

\* reduced_chi_squared = calc_reduced_chi_square(best_fit_gauss(x2), x2, y2, y2_err, N2, 3)
Nb1ScoreGauss ==
    /\ After("best_fit_gauss_2")
    /\ LET run == ScoreRun("score best_fit_gauss", "x2, y2", "y2_err",
                           Args(kernel.best_fit_gauss, kernel.x2, kernel.y2,
                                kernel.y2_err, kernel.N2, 3))
       IN  /\ calls' = Append(calls, run)
           /\ kernel' = Assigned(kernel, run.ret)

\* reduced_chi_squared = calc_reduced_chi_square(best_fit_gauss_2, x2, y2, y2_err, N2, 3)
Nb1ScoreGauss2 ==
    /\ After("score best_fit_gauss")
    /\ LET run == ScoreRun("score best_fit_gauss_2", "x2, y2", "y2_err",
                           Args(kernel.best_fit_gauss_2, kernel.x2, kernel.y2,
                                kernel.y2_err, kernel.N2, 3))
       IN  /\ calls' = Append(calls, run)
           /\ kernel' = Assigned(kernel, run.ret)

\* --- second notebook
\* x1 = np.linspace(0, 10, 100); y1 = ... + noise; y1_err = np.ones(x1.shape) * 0.2
Nb2DataCell ==
    /\ calls = <<>>
    /\ \E y1 \in ConstantArrays(ObsValues, LinspacePoints) :
          kernel' = [FreshKernel EXCEPT
                        !.x1 = ScoreSamples(LinspacePoints), !.y1 = y1,
                        !.y1_err = ndarray_scaled(np_ones(LinspacePoints), Literal(1, 5))]
    /\ calls' = Append(calls, DataRun("x1"))

\* exp_fit = fitter(exp_model, x1, y1, weights=1.0 / y1_err**2)
Nb2FitExp ==
    /\ After("x1")
    /\ \E a \in AmplitudeValues, b \in RateValues, c \in FittedPhaseValues :
          kernel' = [kernel EXCEPT !.exp_fit = [a |-> a, b |-> b, c |-> c]]
    /\ calls' = Append(calls, FitRun("exp_fit", "x1, y1", "y1_err", kernel.y1_err,
                                     ndarray_reciprocal(ndarray_square(kernel.y1_err))))

\* calc_reduced_chi_square(exp_fit(x1), x1, y1, y1_err, len(x1), 3)
Nb2ScoreExp ==
    /\ After("exp_fit")
    /\ LET p == kernel.exp_fit
       IN  calls' = Append(calls, ScoreRun("score exp_fit", "x1, y1", "y1_err",
                               Args(exponential(kernel.x1, p.a, p.b, p.c), kernel.x1,
                                    kernel.y1, kernel.y1_err, Len(kernel.x1), 3)))
    /\ UNCHANGED kernel

\* x2 = np.linspace(0, 10, 100); y2 = ... + noise; y2_err = np.ones(x2.shape) * 0.3
Nb2DataCell2 ==
    /\ After("score exp_fit")
    /\ \E y2 \in ConstantArrays(ObsValues, LinspacePoints) :
          kernel' = [kernel EXCEPT
                        !.x2 = ScoreSamples(LinspacePoints), !.y2 = y2,
                        !.y2_err = ndarray_scaled(np_ones(LinspacePoints), Literal(3, 10))]
    /\ calls' = Append(calls, DataRun("x2"))

\* sine_fit = fitter(sine_model, x2, y2, weights=1.0 / y2_err**2)
Nb2FitSine ==
    /\ After("x2")
    /\ \E a \in AmplitudeValues, b \in RateValues, c \in FittedPhaseValues,
          d \in OffsetValues :
          kernel' = [kernel EXCEPT !.sine_fit = [a |-> a, b |-> b, c |-> c, d |-> d]]
    /\ calls' = Append(calls, FitRun("sine_fit", "x2, y2", "y2_err", kernel.y2_err,
                                     ndarray_reciprocal(ndarray_square(kernel.y2_err))))

\* calc_reduced_chi_square(sine_fit(x2), x2, y2, y2_err, len(x2), 3)
Nb2ScoreSine ==
    /\ After("sine_fit")
    /\ LET p == kernel.sine_fit
       IN  calls' = Append(calls, ScoreRun("score sine_fit", "x2, y2", "y2_err",
                               Args(SineNew_evaluate(kernel.x2, p.a, p.b, p.c, p.d),
                                    kernel.x2, kernel.y2, kernel.y2_err,
                                    Len(kernel.x2), 3)))
    /\ UNCHANGED kernel

NextNotebook ==
    \/ Nb1FitCatalog \/ Nb1DataCell \/ Nb1FitPoly \/ Nb1FitPoly2
    \/ Nb1ScorePoly \/ Nb1ScorePoly2 \/ Nb1DataCell2 \/ Nb1FitGauss
    \/ Nb1CurveFit \/ Nb1ScoreGauss \/ Nb1ScoreGauss2
    \/ Nb2DataCell \/ Nb2FitExp \/ Nb2ScoreExp \/ Nb2DataCell2
    \/ Nb2FitSine \/ Nb2ScoreSine

SpecNotebook == Init /\ [][NextNotebook]_vars

\* =============================================================== claims ====
SameLength(a) == Len(a.fit) = Len(a.y) /\ Len(a.y) = Len(a.yerr)

PositiveErr(a) == \A j \in DOMAIN a.yerr : a.yerr[j].k = "fin" /\ a.yerr[j].m > 0

\* The arguments the evaluator is specified for.
ValidArgs(a) == SameLength(a) /\ PositiveErr(a) /\ a.N > a.n_free

\* The specified output, term by term:
\* (1 / (n - k)) * SUM_{i = 1..n} ((fit_i - y_i) / yerr_i)^2.
Term(f, o, u) == float_mul(float_div(float_sub(f, o), u), float_div(float_sub(f, o), u))

RECURSIVE SigmaTerms(_, _, _, _)
SigmaTerms(fit, y, yerr, n) ==
    IF n = 0 THEN F(0)
    ELSE float_add(SigmaTerms(fit, y, yerr, n - 1), Term(fit[n], y[n], yerr[n]))

ReducedChiSquare(fit, y, yerr, n, k) ==
    float_mul(float_div(F(1), F(n - k)), SigmaTerms(fit, y, yerr, n))

Ones3 == <<F(1), F(1), F(1)>>

\* The scenarios of the specification.
ScenarioC1 == Apply(Args(<<F(2), F(2), F(2)>>, Samples(3), Ones3, Ones3, 3, 1))
ScenarioC6 == Apply(Args(Samples(3), Samples(3), Samples(3), Ones3, 3, 1))
Quarter(v) == float_div(v, F(4))

\* C1: a call whose arrays all have length N, with positive uncertainties and
\* N > n_free, returns (1 / (N - n_free)) * SUM ((fit_i - y_i) / yerr_i)^2;
\* fit=[2,2,2], y=[1,1,1], yerr=[1,1,1], N=3, n_free=1 returns 1.5.
C1_ReturnsFormula ==
    /\ \A i \in DOMAIN calls :
          LET a == calls[i].args
          IN  (ValidArgs(a) /\ Len(a.fit) = a.N)
                 => calls[i].ret = Return(ReducedChiSquare(a.fit, a.y, a.yerr, a.N, a.n_free))
    /\ ScenarioC1 = Return(Fin(3, -1))

C1_Witness ==
    \E i \in DOMAIN calls :
        /\ ValidArgs(calls[i].args)
        /\ Len(calls[i].args.fit) = calls[i].args.N
        /\ calls[i].args.n_free > 0
        /\ calls[i].ret.kind = "return"
        /\ calls[i].ret.val.m > 0

C3_NegativeDofFails ==
    \A i \in DOMAIN calls :
        calls[i].args.N < calls[i].args.n_free
            => (calls[i].ret.kind = "raise" /\ calls[i].ret.val = NoValue)

\* C4: a call whose three arrays do not all have the same length fails and
\* returns no value.
C4_LengthMismatchFails ==
    \A i \in DOMAIN calls :
        ~SameLength(calls[i].args)
            => (calls[i].ret.kind = "raise" /\ calls[i].ret.val = NoValue)

\* C5: a call with a zero or negative element in yerr fails and returns no
\* value.
C5_InvalidUncertaintyFails ==
    \A i \in DOMAIN calls :
        (\E j \in DOMAIN calls[i].args.yerr : calls[i].args.yerr[j].m <= 0)
            => (calls[i].ret.kind = "raise" /\ calls[i].ret.val = NoValue)

\* C6: a call with valid arguments and fit = y elementwise returns exactly 0;
\* fit=[1,2,3], y=[1,2,3], yerr=[1,1,1], N=3, n_free=1 returns 0.
C6_ZeroWhenFitEqualsObserved ==
    /\ \A i \in DOMAIN calls :
          (ValidArgs(calls[i].args) /\ calls[i].args.fit = calls[i].args.y)
              => calls[i].ret = Return(Fin(0, 0))
    /\ ScenarioC6 = Return(Fin(0, 0))

C6_Witness ==
    \E i \in DOMAIN calls :
        /\ ValidArgs(calls[i].args)
        /\ calls[i].args.fit = calls[i].args.y
        /\ Len(calls[i].args.fit) = 2
        /\ calls[i].args.fit[1] # calls[i].args.fit[2]
        /\ calls[i].args.yerr[1] # calls[i].args.yerr[2]
        /\ calls[i].ret.kind = "return"

ScaledLeq(a, p, b, q) ==
    LET e0 == Min(a.e, b.e)
    IN  a.m * 2 ^ (a.e - e0) * p <= b.m * 2 ^ (b.e - e0) * q

\* r and s differ by no more than the rounding of n float additions and one
\* multiplication: each is at most (2^P - 1) / (2^P - (2n + 1)) times the other.
WithinRounding(r, s, n) ==
    /\ r.k = "fin" /\ s.k = "fin"
    /\ ScaledLeq(r, 2 ^ Precision - (2 * n + 1), s, 2 ^ Precision - 1)
    /\ ScaledLeq(s, 2 ^ Precision - (2 * n + 1), r, 2 ^ Precision - 1)

C9_SameArgsSameResult ==
    \A i, j \in DOMAIN calls :
        calls[i].args = calls[j].args => calls[i].ret = calls[j].ret

C9_Witness ==
    /\ Len(calls) = 3
    /\ calls[2].rel = "doubled"
    /\ calls[3].rel = "repeat"
    /\ calls[3].ret.kind = "return"
    /\ kernel.N # 0
    /\ kernel.N # calls[1].args.N
    /\ kernel.reduced_chi_squared = calls[3].ret.val

SineAt(u, a, b, c, d) == SineNew_evaluate(<<u>>, a, b, c, d)[1]
PartialC(u, a, b, c) == float_mul(a, float_cos(float_add(float_mul(b, u), c)))
Gradient(u, a, b, c, d) ==
    <<SineAt(u, F(1), b, c, F(0)), float_mul(PartialC(u, a, b, c), u),
      PartialC(u, a, b, c), SineAt(u, F(0), b, c, F(1))>>

\* C18: SineNew.fit_deriv(x, a, b, c, d) returns four arrays, the gradients by
\* a, b, c and d in that order, each of the length of x.
C18_FitDerivPerParameter ==
    \A i \in DOMAIN calls :
        calls[i].fn = "SineNew.fit_deriv"
            => LET g == calls[i].ret.val
                   v == calls[i].args
               IN  /\ Len(g) = 4
                   /\ \A p \in 1..4 :
                         /\ Len(g[p]) = Len(v.x)
                         /\ \A j \in 1..Len(v.x) :
                               g[p][j] = Gradient(v.x[j], v.a, v.b, v.c, v.d)[p]

C18_Witness ==
    \E i \in DOMAIN calls :
        /\ calls[i].fn = "SineNew.fit_deriv"
        /\ Len(calls[i].args.x) = 2
        /\ Len(calls[i].ret.val) = 4
        /\ \A p, q \in 1..4 : p # q => calls[i].ret.val[p] # calls[i].ret.val[q]

\* C20: in every scoring call, the n_free argument equals the number of free
\* (non-fixed) parameters of the model whose fit is scored.
C20_NFreeCountsFreeParameters ==
    \A i \in DOMAIN calls :
        calls[i].args.n_free = Cardinality(FreeParameters(calls[i].model))

\* C24: a chi-square call that violates a precondition (unequal lengths, an
\* uncertainty that is not positive, N <= n_free) aborts with an error, yields
\* no value and leaves the kernel as it was before the call.
C24_ViolationAborts ==
    \A i \in DOMAIN calls :
        ~ValidArgs(calls[i].args)
            => /\ calls[i].ret.kind = "raise"
               /\ calls[i].ret.exc # "none"
               /\ kernel.reduced_chi_squared = NoValue

\* C26: two calls that differ only in x have the same outcome: the same
\* returned value or the same exception.
C26_IndependentOfX ==
    \A i \in DOMAIN calls :
        calls[i].rel = "other x" => calls[i].ret = calls[1].ret

C26_Witness ==
    \E i \in DOMAIN calls :
        /\ calls[i].rel = "other x"
        /\ Len(calls[i].args.x) # Len(calls[1].args.x)
        /\ Len(calls[i].args.x) # Len(calls[i].args.y)
        /\ calls[i].ret.kind = "return"
        /\ calls[i].ret.val.m > 0

\* The uncertainty array of a data set.
OwnErrName(data) ==
    CASE data = "log_period, k_mag" -> "k_mag_err"
      [] data = "x1, y1" -> "y1_err"
      [] data = "x2, y2" -> "y2_err"

OwnErr(data) ==
    CASE data = "log_period, k_mag" -> kernel.k_mag_err
      [] data = "x1, y1" -> kernel.y1_err
      [] data = "x2, y2" -> kernel.y2_err

\* C21: every fitter call that supplies weights passes 1 / uncertainty,
\* elementwise.
C21_WeightsAreReciprocalErr ==
    \A i \in DOMAIN calls :
        (calls[i].kind = "fit" /\ calls[i].weights # Unbound)
            => calls[i].weights = ndarray_reciprocal(calls[i].err)

\* C22: in every chi-square call of the notebooks, the N argument equals the
\* common length of the fit, y and yerr arrays of the call.
C22_NIsCommonLength ==
    \A i \in DOMAIN calls :
        calls[i].kind = "score"
            => /\ Len(calls[i].args.fit) = calls[i].args.N
               /\ Len(calls[i].args.y) = calls[i].args.N
               /\ Len(calls[i].args.yerr) = calls[i].args.N

C22_Witness ==
    \E i, j \in DOMAIN calls :
        /\ calls[i].cell = "score best_fit_poly" /\ calls[i].args.N = kernel.N
        /\ calls[j].cell = "score best_fit_gauss_2" /\ calls[j].args.N = kernel.N2
        /\ Len(calls[j].args.yerr) = kernel.N
        /\ calls[j].ret.kind = "return"

\* C27: every fit and every chi-square call on a data set takes its
\* uncertainties from that data set's own uncertainty array.
C27_OwnUncertainty ==
    \A i \in DOMAIN calls :
        calls[i].kind \in {"fit", "score"}
            => /\ calls[i].err_name = OwnErrName(calls[i].data)
               /\ calls[i].err = OwnErr(calls[i].data)

====
